---- MODULE Spec2Model ----
(***************************************************************************)
(* A model of src/lib/github_api.ts: the GithubApi client.                 *)
(*                                                                         *)
(*   - the Request Dispatcher (req / get / post) over the axios Transport, *)
(*   - the Rate-Limit Monitor (checkForRateLimitInfo, logRateLimitInfo)    *)
(*     behind lodash.throttle(fn, 10 * 1000),                              *)
(*   - the Pagination Traversal (the async generator ittrAllOpenPrs),      *)
(*   - getPr as a plain caller of the dispatcher.                          *)
(*                                                                         *)
(* JavaScript runs one task at a time: every action below is one task of   *)
(* the event loop, from the event that starts it (a call, a settled        *)
(* Transport promise, a timer) to the next await / yield / return.         *)
(***************************************************************************)
EXTENDS Integers, Sequences, FiniteSets, TLC

VARIABLES
  now,      \* Date.now(), in milliseconds since the model's start
  thr,      \* per Client: the state of its lodash.throttle closure
  rateLog,  \* per Client: the 'rate limit' lines logged so far, with their time
  seen,     \* per Client: the last pair handed to the throttled logger
  out,      \* what the last task did, in program order (calls, logs, results)
  net,      \* per caller: the Transport call in flight, if any
  gen,      \* per traversal: the state of the ittrAllOpenPrs generator object
  sent,     \* per traversal: the Transport calls it issued, in order
  rx,       \* per traversal: the pages (responses) it received, in order
  yielded,  \* per traversal: the records handed to the consumer, in order
  ops,      \* per getPr caller: the state of its current getPr call
  endless,  \* whether the upstream resource never runs out of pages
  client,   \* per Client: its log and its Transport (the axios instance ax)
  calls,    \* per caller of the other operations: the state of its call
  cache,    \* githubApiCache: per context, the Client it holds, if any
  built,    \* per context: how many Clients the cache's factory constructed
  assigned, \* per context: the Client assignGithubApi gave last, if any
  handed    \* per context: the Clients getGithubApi returned since then

cacheVars == <<cache, built, assigned, handed>>

vars ==
  <<now, thr, rateLog, seen, out, net, gen, sent, rx, yielded, ops, endless,
    client, calls, cacheVars>>

----------------------------------------------------------------------------
(* Bounds of the model.                                                    *)

MaxTicks == 2      \* the clock runs to MaxTicks * TickMs
TickMs == 5000     \* the clock's step
MaxPages == 2      \* the upstream resource has at most this many pages
MaxPending == 1    \* unresolved next() calls a consumer keeps on a generator
MaxCalls == 3      \* getPr calls made in one run, over all callers

----------------------------------------------------------------------------
(* Optional values (undefined / null) and small helpers.                   *)

None == << >>
Some(x) == <<x>>

Min(a, b) == IF a <= b THEN a ELSE b

RECURSIVE Flatten(_)
Flatten(ss) == IF ss = << >> THEN << >> ELSE Head(ss) \o Flatten(Tail(ss))

\* obj[key] is truthy: the key is present and its (string) value is not "".
Truthy(obj, key) == key \in DOMAIN obj /\ obj[key] # << >>

----------------------------------------------------------------------------
(* Clients and callers.                                                    *)

Clients == {"c1", "c2"}
Traversals == {"t1", "t2"}
GetPrCallers == {"g1", "g2"}
OpCallers == {"o1"}
Callers == Traversals \cup GetPrCallers \cup OpCallers
Contexts == {"ctx1", "ctx2"}


----------------------------------------------------------------------------
(* lodash.throttle(func, wait), as the constructor calls it (no options):   *)
(* throttle is debounce with leading, trailing and maxWait = wait.  A state *)
(* t of the closure holds lastArgs, lastCallTime (both optional),           *)
(* lastInvokeTime, whether timerId is set, and the timeouts still pending   *)
(* (their due times).  Each operator returns the next state and the         *)
(* argument lists func was invoked with (none or one).                      *)

wait == 10 * 1000
maxWait == wait
maxing == TRUE
leading == TRUE
trailing == TRUE

ThrottleInit ==
  [lastArgs |-> None, lastCallTime |-> None, lastInvokeTime |-> 0,
   timerId |-> FALSE, timers |-> << >>]

\* setTimeout(timerExpired, delay) at `time`; timerId now names that timeout.
setTimeout(t, time, delay) ==
  [t EXCEPT !.timerId = TRUE, !.timers = Append(@, time + delay)]

\* As invokeFunc, leaving lastArgs in place.
invokeFunc_keepsArgs(t, time) ==
  [t |-> [t EXCEPT !.lastInvokeTime = time], calls |-> t.lastArgs]

invokeFunc(t, time) ==
  [t |-> [t EXCEPT !.lastArgs = None, !.lastInvokeTime = time],
   calls |-> t.lastArgs]

leadingEdge(t, time) ==
  LET t1 == setTimeout([t EXCEPT !.lastInvokeTime = time], time, wait)
  IN IF leading THEN invokeFunc(t1, time) ELSE [t |-> t1, calls |-> << >>]

remainingWait(t, time) ==
  LET timeSinceLastCall == time - t.lastCallTime[1]
      timeSinceLastInvoke == time - t.lastInvokeTime
      timeWaiting == wait - timeSinceLastCall
  IN IF maxing THEN Min(timeWaiting, maxWait - timeSinceLastInvoke)
     ELSE timeWaiting

shouldInvoke(t, time) ==
  \/ t.lastCallTime = None
  \/ time - t.lastCallTime[1] >= wait
  \/ time - t.lastCallTime[1] < 0
  \/ (maxing /\ time - t.lastInvokeTime >= maxWait)

trailingEdge(t, time) ==
  LET t1 == [t EXCEPT !.timerId = FALSE]
  IN IF trailing /\ t1.lastArgs # None THEN invokeFunc(t1, time)
     ELSE [t |-> [t1 EXCEPT !.lastArgs = None], calls |-> << >>]

\* The timeout callback; t is the state with the fired timeout removed.
timerExpired(t, time) ==
  IF shouldInvoke(t, time) THEN trailingEdge(t, time)
  ELSE [t |-> setTimeout(t, time, remainingWait(t, time)), calls |-> << >>]

\* The throttled function itself, called with `args` at `time`.
debounced(t, time, args) ==
  LET isInvoking == shouldInvoke(t, time)
      t1 == [t EXCEPT !.lastArgs = Some(args), !.lastCallTime = Some(time)]
  IN IF isInvoking /\ ~t1.timerId THEN leadingEdge(t1, time)
     ELSE IF isInvoking /\ maxing
       THEN invokeFunc(setTimeout(t1, time, wait), time)
     ELSE IF ~t1.timerId
       THEN [t |-> setTimeout(t1, time, wait), calls |-> << >>]
     ELSE [t |-> t1, calls |-> << >>]

----------------------------------------------------------------------------
(* Number.parseFloat on a header value.  A string is a sequence of          *)
(* characters; the result is the value of its longest prefix of digits,     *)
(* and NaN when there is none.                                              *)

NaN == 0 - 1

Digits == <<"0", "1", "2", "3", "4", "5", "6", "7", "8", "9">>

IsDigit(ch) == \E d \in DOMAIN Digits : Digits[d] = ch

DigitValue(ch) == (CHOOSE d \in DOMAIN Digits : Digits[d] = ch) - 1

RECURSIVE DigitPrefix(_, _)
DigitPrefix(str, acc) ==
  IF str = << >> \/ ~IsDigit(Head(str)) THEN acc
  ELSE DigitPrefix(Tail(str), 10 * acc + DigitValue(Head(str)))

parseFloat(str) ==
  IF str = << >> \/ ~IsDigit(Head(str)) THEN NaN ELSE DigitPrefix(str, 0)

----------------------------------------------------------------------------
(* The Rate-Limit Monitor.                                                  *)

RateLimitLimit == "x-ratelimit-limit"
RateLimitRemaining == "x-ratelimit-remaining"

\* this.log.info(`rate limit ${remaining}/${total}`, {...})
logRateLimitInfo(remaining, total) ==
  [k |-> "log", level |-> "info", type |-> "githubRateLimit",
   remaining |-> remaining, total |-> total]

\* The call of the throttled logger, when both headers are truthy.
\* axios always gives a response a headers object, so resp.headers is truthy.
HasRateLimitInfo_either(resp) ==
  Truthy(resp.headers, RateLimitLimit) \/ Truthy(resp.headers, RateLimitRemaining)

HasRateLimitInfo(resp) ==
  Truthy(resp.headers, RateLimitLimit) /\ Truthy(resp.headers, RateLimitRemaining)

\* headers[key] as parseFloat reads it: undefined parses like "", to NaN.
HeaderText(headers, key) == IF key \in DOMAIN headers THEN headers[key] ELSE << >>

RateLimitArgs(resp) ==
  <<parseFloat(HeaderText(resp.headers, RateLimitRemaining)),
    parseFloat(HeaderText(resp.headers, RateLimitLimit))>>

\* Returns the throttle's next state and the lines logged, after the
\* record of the call itself.
checkForRateLimitInfo(t, time, resp) ==
  LET called == [k |-> "check", headers |-> resp.headers]
  IN IF HasRateLimitInfo(resp)
     THEN LET r == debounced(t, time, RateLimitArgs(resp))
          IN [t |-> r.t,
              ev |-> <<called>> \o
                     [i \in DOMAIN r.calls |->
                        logRateLimitInfo(r.calls[i][1], r.calls[i][2])]]
     ELSE [t |-> t, ev |-> <<called>>]

----------------------------------------------------------------------------
(* The Request Dispatcher.  An error is a record with the fields axios      *)
(* sets: message, request (truthy when the request was made) and response   *)
(* (present when one was received).  A response has status, headers, data.  *)

isAxiosErrorReq(error) == error.request

isAxiosErrorResp(error) == error.request /\ error.response # None

\* The argument of this.ax({method, url, params, data: body}).
AxConfig(method, url, params, body) ==
  [method |-> method, url |-> url, params |-> params, data |-> body]

\* req up to its await: one Transport call.
reqTry(caller, method, url, params, body) ==
  LET cfg == AxConfig(method, url, params, body)
  IN [ax |-> cfg,
      ev |-> << [k |-> "req", caller |-> caller, cfg |-> cfg],
                [k |-> "ax", caller |-> caller, cfg |-> cfg] >>]

\* req after the Transport call resolved with resp.
reqThen(t, time, caller, resp) ==
  LET c == checkForRateLimitInfo(t, time, resp)
  IN [t |-> c.t,
      ev |-> c.ev \o << [k |-> "return", caller |-> caller, value |-> resp] >>,
      ok |-> TRUE, value |-> resp]

logResponseError(cfg, error) ==
  [k |-> "log", level |-> "debug", type |-> "githubApiResponseError",
   status |-> error.response[1].status, cfg |-> cfg,
   response |-> error.response[1]]

logRequestError(cfg, error) ==
  [k |-> "log", level |-> "debug", type |-> "githubApiRequestError",
   errorMessage |-> error.message, cfg |-> cfg]

\* As reqCatch, without feeding the Rate-Limit Monitor.
reqCatch_noCheck(t, time, caller, cfg, error) ==
  LET thrown == << [k |-> "throw", caller |-> caller, error |-> error] >>
  IN IF isAxiosErrorResp(error)
     THEN [t |-> t, ev |-> <<logResponseError(cfg, error)>> \o thrown,
           ok |-> FALSE, value |-> error]
     ELSE IF isAxiosErrorReq(error)
     THEN [t |-> t, ev |-> <<logRequestError(cfg, error)>> \o thrown,
           ok |-> FALSE, value |-> error]
     ELSE [t |-> t, ev |-> thrown, ok |-> FALSE, value |-> error]

\* As reqCatch, throwing a new error in place of the one caught.
reqCatch_wraps(t, time, caller, cfg, error) ==
  LET wrapped == [message |-> "github request failed", request |-> FALSE,
                  response |-> None]
      thrown == << [k |-> "throw", caller |-> caller, error |-> wrapped] >>
  IN IF isAxiosErrorResp(error)
     THEN LET c == checkForRateLimitInfo(t, time, error.response[1])
          IN [t |-> c.t,
              ev |-> c.ev \o <<logResponseError(cfg, error)>> \o thrown,
              ok |-> FALSE, value |-> wrapped]
     ELSE IF isAxiosErrorReq(error)
     THEN [t |-> t, ev |-> <<logRequestError(cfg, error)>> \o thrown,
           ok |-> FALSE, value |-> wrapped]
     ELSE [t |-> t, ev |-> thrown, ok |-> FALSE, value |-> wrapped]

\* As reqCatch, with `if` in place of `else if`.
reqCatch_noElse(t, time, caller, cfg, error) ==
  LET thrown == << [k |-> "throw", caller |-> caller, error |-> error] >>
      c == IF isAxiosErrorResp(error)
           THEN checkForRateLimitInfo(t, time, error.response[1])
           ELSE [t |-> t, ev |-> << >>]
  IN [t |-> c.t,
      ev |-> c.ev
             \o (IF isAxiosErrorResp(error)
                 THEN <<logResponseError(cfg, error)>> ELSE << >>)
             \o (IF isAxiosErrorReq(error)
                 THEN <<logRequestError(cfg, error)>> ELSE << >>)
             \o thrown,
      ok |-> FALSE, value |-> error]

\* req's catch block, after the Transport call rejected with error.
reqCatch(t, time, caller, cfg, error) ==
  LET thrown == << [k |-> "throw", caller |-> caller, error |-> error] >>
  IN IF isAxiosErrorResp(error)
     THEN LET c == checkForRateLimitInfo(t, time, error.response[1])
          IN [t |-> c.t,
              ev |-> c.ev \o <<logResponseError(cfg, error)>> \o thrown,
              ok |-> FALSE, value |-> error]
     ELSE IF isAxiosErrorReq(error)
     THEN [t |-> t, ev |-> <<logRequestError(cfg, error)>> \o thrown,
           ok |-> FALSE, value |-> error]
     ELSE [t |-> t, ev |-> thrown, ok |-> FALSE, value |-> error]

get(caller, url, params) == reqTry(caller, "get", url, params, None)

post(caller, url, params, body) == reqTry(caller, "post", url, params, body)

----------------------------------------------------------------------------
(* parse-link-header.  A link header is a sequence of link-values, each a   *)
(* url and the list of relation names of its rel parameter (empty when the  *)
(* link-value has none).  The result is null (None) for a falsy header,     *)
(* else an object with one entry per relation name, the last link-value     *)
(* naming a relation winning.                                               *)

hasRel(x) == x.rel # << >>

Rels(linkHeader) ==
  UNION { {linkHeader[i].rel[j] : j \in DOMAIN linkHeader[i].rel}
          : i \in DOMAIN linkHeader }

LastWithRel(linkHeader, rel) ==
  CHOOSE i \in DOMAIN linkHeader :
    /\ \E j \in DOMAIN linkHeader[i].rel : linkHeader[i].rel[j] = rel
    /\ \A i2 \in DOMAIN linkHeader :
         (\E j \in DOMAIN linkHeader[i2].rel : linkHeader[i2].rel[j] = rel)
           => i2 <= i

parseLinkHeader(linkHeader) ==
  IF linkHeader = << >> THEN None
  ELSE Some([rel \in Rels(linkHeader) |->
              [url |-> linkHeader[LastWithRel(linkHeader, rel)].url,
               rel |-> rel]])

----------------------------------------------------------------------------
(* ittrAllOpenPrs.  A generator state g holds pc ("start": created, body    *)
(* not yet entered; "await": waiting for a page; "yield": suspended at      *)
(* yield; "done"; "failed"), the urls queue, the current page, the number   *)
(* idx of its records already yielded, the number of unresolved next()      *)
(* calls, and the error it failed with.  Each operator runs the body from   *)
(* one point to the next await, suspension or end, and returns the state,   *)
(* the records yielded, what was called and logged, and the Transport call  *)
(* issued, if any.                                                          *)

null == "null"

PullsPath == "/repos/elastic/kibana/pulls"

GenInit ==
  [pc |-> "start", urls |-> <<null>>, page |-> None, idx |-> 0,
   pending |-> 0, err |-> None]

MkError(message) == [message |-> message, request |-> FALSE, response |-> None]

\* The generator ends by an exception: the oldest next() rejects, the rest
\* resolve with done.
GenThrow(g, error) ==
  [g |-> [g EXCEPT !.pc = "failed", !.err = Some(error), !.pending = 0],
   ys |-> << >>, ev |-> << >>, ax |-> None]

fetchInitialPage(caller) ==
  LET r == get(caller, PullsPath, Some([state |-> "open"]))
  IN [ax |-> r.ax,
      ev |-> << [k |-> "log", level |-> "info", type |-> "fetchInitialPage"] >>
             \o r.ev]

\* As fetchNextPage, asking for the first page again instead of url.
fetchNextPage_ignoresUrl(caller, url) ==
  LET r == get(caller, PullsPath, Some([state |-> "open"]))
  IN [ax |-> r.ax,
      ev |-> << [k |-> "log", level |-> "console", type |-> "fetchNextPage",
                 url |-> url] >> \o r.ev]

fetchNextPage(caller, url) ==
  LET r == get(caller, url, None)
  IN [ax |-> r.ax,
      ev |-> << [k |-> "log", level |-> "console", type |-> "fetchNextPage",
                 url |-> url] >> \o r.ev]

\* while (urls.length) { url = urls.shift(); page = await fetch... }
LoopHead(caller, g) ==
  IF g.urls = << >>
  THEN [g |-> [g EXCEPT !.pc = "done", !.pending = 0],
        ys |-> << >>, ev |-> << >>, ax |-> None]
  ELSE LET url == Head(g.urls)
           f == IF url # null THEN fetchNextPage(caller, url)
                ELSE fetchInitialPage(caller)
       IN [g |-> [g EXCEPT !.urls = Tail(@), !.pc = "await"],
           ys |-> << >>, ev |-> f.ev, ax |-> Some(f.ax)]

\* As AfterPage, taking a missing link header for the end of the pages.
AfterPage_missingIsEnd(caller, g) ==
  LET headers == g.page[1].headers
  IN IF ~Truthy(headers, "link")
     THEN LoopHead(caller, g)
     ELSE LET links == parseLinkHeader(headers["link"])
          IN IF links = None
             THEN GenThrow(g, MkError("unable to parse link header"))
             ELSE IF "next" \in DOMAIN links[1]
             THEN LoopHead(caller,
                           [g EXCEPT !.urls = Append(@, links[1]["next"].url)])
             ELSE LoopHead(caller, g)

\* As AfterPage, never queueing the next page.
AfterPage_neverPushes(caller, g) ==
  LET headers == g.page[1].headers
  IN IF ~Truthy(headers, "link")
     THEN GenThrow(g, MkError("missing link header"))
     ELSE LET links == parseLinkHeader(headers["link"])
          IN IF links = None
             THEN GenThrow(g, MkError("unable to parse link header"))
             ELSE LoopHead(caller, g)

\* As AfterPage, queueing the url of every link-value of the header.
AfterPage_pushesAll(caller, g) ==
  LET headers == g.page[1].headers
  IN IF ~Truthy(headers, "link")
     THEN GenThrow(g, MkError("missing link header"))
     ELSE LET links == parseLinkHeader(headers["link"])
          IN IF links = None
             THEN GenThrow(g, MkError("unable to parse link header"))
             ELSE IF "next" \in DOMAIN links[1]
             THEN LoopHead(caller,
                           [g EXCEPT !.urls = @ \o [i \in DOMAIN headers["link"]
                                                     |-> headers["link"][i].url]])
             ELSE LoopHead(caller, g)

\* After the for loop: the link header checks, and the next iteration.
AfterPage(caller, g) ==
  LET headers == g.page[1].headers
  IN IF ~Truthy(headers, "link")
     THEN GenThrow(g, MkError("missing link header"))
     ELSE LET links == parseLinkHeader(headers["link"])
          IN IF links = None
             THEN GenThrow(g, MkError("unable to parse link header"))
             ELSE IF "next" \in DOMAIN links[1]
             THEN LoopHead(caller,
                           [g EXCEPT !.urls = Append(@, links[1]["next"].url)])
             ELSE LoopHead(caller, g)

\* As Advance, going on to the next page as soon as the last record of the
\* page is yielded, without waiting for the next next().
Advance_prefetch(caller, g) ==
  LET data == g.page[1].data
      n == Min(g.pending, Len(data) - g.idx)
      ys == SubSeq(data, g.idx + 1, g.idx + n)
      g1 == [g EXCEPT !.idx = @ + n, !.pending = @ - n]
  IN IF g1.pending = 0 /\ g1.idx < Len(data)
     THEN [g |-> [g1 EXCEPT !.pc = "yield"], ys |-> ys, ev |-> << >>,
           ax |-> None]
     ELSE LET r == AfterPage(caller, g1) IN [r EXCEPT !.ys = ys \o @]

\* for (const pr of page.data) yield pr: one record per unresolved next().
Advance(caller, g) ==
  LET data == g.page[1].data
      n == Min(g.pending, Len(data) - g.idx)
      ys == SubSeq(data, g.idx + 1, g.idx + n)
      g1 == [g EXCEPT !.idx = @ + n, !.pending = @ - n]
  IN IF g1.pending = 0
     THEN [g |-> [g1 EXCEPT !.pc = "yield"], ys |-> ys, ev |-> << >>,
           ax |-> None]
     ELSE LET r == AfterPage(caller, g1) IN [r EXCEPT !.ys = ys \o @]

\* next() on a suspended generator.
Resume(caller, g) ==
  LET g1 == [g EXCEPT !.pending = @ + 1]
  IN IF g.pc = "start" THEN LoopHead(caller, g1) ELSE Advance(caller, g1)

\* The page arrived (req returned it).
Received(caller, g, page) ==
  Advance(caller, [g EXCEPT !.page = Some(page), !.idx = 0])

----------------------------------------------------------------------------
(* getPr: one GET of the pull request's resource, returning resp.data.      *)
(* encodeURIComponent leaves the decimal digits of `${prId}` as they are.   *)

getPr(caller, prId) == get(caller, PullsPath \o "/" \o ToString(prId), None)

\* A getPr caller: where its call is, the call's argument and result, and
\* the calls it made so far.
OpInit == [pc |-> "idle", prId |-> 0, result |-> None, err |-> None, n |-> 0]

----------------------------------------------------------------------------
(* compare, getCommitDate and setCommitStatus.  A ref is a sequence of      *)
(* characters.  Each operation is given as the part up to its await (one    *)
(* call of the dispatcher) and the part after the response arrived, which   *)
(* returns or throws a value after what it logged.                          *)

Unescaped == {"a", "b", "c", "d", "e", "f", "m", "x", "0", "1", "2", "7",
              "-", "_", ".", "~"}

\* encodeURIComponent of one character: all but the unreserved ones are
\* percent-encoded.
EncodeChar(ch) ==
  IF ch \in Unescaped THEN ch
  ELSE IF ch = "/" THEN "%2F"
  ELSE IF ch = "#" THEN "%23"
  ELSE IF ch = "?" THEN "%3F"
  ELSE IF ch = " " THEN "%20"
  ELSE "%" \o ch

RECURSIVE encodeURIComponent(_)
encodeURIComponent(str) ==
  IF str = << >> THEN ""
  ELSE EncodeChar(Head(str)) \o encodeURIComponent(Tail(str))

\* The decimal number in the characters from..to of str.
Field(str, from, to) == DigitPrefix(SubSeq(str, from, to), 0)

\* Days from 1970-01-01 to the civil date y-m-d.
DaysFromCivil(y, m, d) ==
  LET y1 == IF m <= 2 THEN y - 1 ELSE y
      era == y1 \div 400
      yoe == y1 - era * 400
      mp == IF m > 2 THEN m - 3 ELSE m + 9
      doy == (153 * mp + 2) \div 5 + d - 1
      doe == yoe * 365 + yoe \div 4 - yoe \div 100 + doy
  IN era * 146097 + doe - 719468

\* new Date(str) for str of the form YYYY-MM-DDTHH:MM:SSZ, as the API gives
\* it: the time value of the date, in seconds.
Date(str) ==
  LET days == DaysFromCivil(Field(str, 1, 4), Field(str, 6, 7), Field(str, 9, 10))
  IN ((days * 24 + Field(str, 12, 13)) * 60 + Field(str, 15, 16)) * 60
     + Field(str, 18, 19)

\* As getCommitDate, answering the committer's date.
getCommitDate_committer(commit) ==
  Date(commit.committer.date)

getCommitDate(commit) ==
  LET committerDate == Date(commit.committer.date)
      authorDate == Date(commit.author.date)
  IN IF committerDate > authorDate THEN committerDate ELSE authorDate

undefined == "undefined"

compare(caller, headRef, baseRef) ==
  LET headComponent == encodeURIComponent(headRef)
      baseComponent == encodeURIComponent(baseRef)
      url == "/repos/elastic/kibana/compare/" \o headComponent \o "..."
             \o baseComponent
  IN get(caller, url, None)

\* As compareThen, failing on every empty commits list.
compareThen_anyEmpty(caller, resp) ==
  LET totalMissingCommits == resp.data.ahead_by
      missingCommits == resp.data.commits
  IN IF Len(missingCommits) = 0
     THEN [ok |-> FALSE,
           value |-> MkError("Unexpected github response"),
           ev |-> << [k |-> "log", level |-> "error",
                      type |-> "unexpected github response",
                      totalMissingCommits |-> totalMissingCommits,
                      respBody |-> resp.data] >>]
     ELSE [ok |-> TRUE,
           value |-> [totalMissingCommits |-> totalMissingCommits,
                      missingCommits |-> missingCommits],
           ev |-> << >>]

\* As compareThen, throwing without the error log.
compareThen_noLog(caller, resp) ==
  LET totalMissingCommits == resp.data.ahead_by
      missingCommits == resp.data.commits
  IN IF totalMissingCommits > 0 /\ Len(missingCommits) = 0
     THEN [ok |-> FALSE,
           value |-> MkError("Unexpected github response"),
           ev |-> << >>]
     ELSE [ok |-> TRUE,
           value |-> [totalMissingCommits |-> totalMissingCommits,
                      missingCommits |-> missingCommits],
           ev |-> << >>]

\* compare after resp = await this.get(url).
compareThen(caller, resp) ==
  LET totalMissingCommits == resp.data.ahead_by
      missingCommits == resp.data.commits
  IN IF totalMissingCommits > 0 /\ Len(missingCommits) = 0
     THEN [ok |-> FALSE,
           value |-> MkError("Unexpected github response"),
           ev |-> << [k |-> "log", level |-> "error",
                      type |-> "unexpected github response",
                      totalMissingCommits |-> totalMissingCommits,
                      respBody |-> resp.data] >>]
     ELSE [ok |-> TRUE,
           value |-> [totalMissingCommits |-> totalMissingCommits,
                      missingCommits |-> missingCommits],
           ev |-> << >>]

\* The method getCommitDate(ref), up to its await.
GithubApi_getCommitDate(caller, ref) ==
  LET refComponent == encodeURIComponent(ref)
  IN get(caller, "/repos/elastic/kibana/commits/" \o refComponent, None)

\* The method getCommitDate(ref) after resp = await this.get(...).
getCommitDateThen(caller, resp) ==
  [ok |-> TRUE, value |-> getCommitDate(resp.data.commit), ev |-> << >>]

setCommitStatus(caller, ref, options) ==
  LET shaComponent == encodeURIComponent(ref)
      url == "/repos/elastic/kibana/statuses/" \o shaComponent
  IN post(caller, url, Some(<< >>), Some(options))

\* setCommitStatus after await this.post(...): it returns nothing.
setCommitStatusThen(caller, resp) ==
  [ok |-> TRUE, value |-> undefined, ev |-> << >>]

\* A caller of these operations: where its call is, the call (the
\* operation's name and arguments), its result and the calls made so far.
CallInit == [pc |-> "idle", op |-> None, result |-> None, err |-> None, n |-> 0]

----------------------------------------------------------------------------
(* The constructor: the Client's log and its axios instance.                *)

\* getConfigVar('GITHUB_SECRET')
Secret == "s3cr3t"

\* The logger of a context (or, in Init, of a Client made for one).
getRequestLogger(ctx) == "log:" \o ctx

GithubApi(log, secret) ==
  [log |-> log,
   ax |-> [baseURL |-> "https://api.github.com/",
           headers |-> [h \in {"User-Agent", "Authorization", "Accept"} |->
                          IF h = "User-Agent" THEN "spalger/kibana-pr-bot"
                          ELSE IF h = "Authorization" THEN "token " \o secret
                          ELSE "application/vnd.github.shadow-cat-preview"]]]

----------------------------------------------------------------------------
(* The cache of Clients, one per context.                                   *)

\* What the cache's factory returns when it runs for ctx after having made n
\* Clients for it: a new object each time, wired to the context's logger and
\* the secret.
newGithubApi(ctx, n) ==
  [id |-> <<ctx, n + 1>>, api |-> GithubApi(getRequestLogger(ctx), Secret)]

\* get of makeContextCache, on the cache c: the value held for ctx, or the
\* one the factory makes now, which the cache then holds.
cacheGet(c, n, ctx) ==
  IF c[ctx] # None
  THEN [value |-> c[ctx][1], cache |-> c, made |-> 0]
  ELSE LET value == newGithubApi(ctx, n)
       IN [value |-> value, cache |-> [c EXCEPT ![ctx] = Some(value)],
           made |-> 1]

\* assignValue of makeContextCache: the cache holds value for ctx.
cacheAssignValue(c, ctx, value) == [c EXCEPT ![ctx] = Some(value)]

\* As getGithubApi, running the factory at every access.
getGithubApi_constructs(c, n, ctx) ==
  [value |-> newGithubApi(ctx, n), cache |-> c, made |-> 1]

getGithubApi(c, n, ctx) == cacheGet(c, n, ctx)

assignGithubApi(c, ctx, value) == cacheAssignValue(c, ctx, value)

----------------------------------------------------------------------------
(* What the upstream API can answer.                                        *)

Str(digits) == [i \in 1..Len(digits) |-> digits[i]]

Headers(link, limit, remaining) ==
  LET present == {key \in {"link", RateLimitLimit, RateLimitRemaining} :
                    \/ key = "link" /\ link # None
                    \/ key = RateLimitLimit /\ limit # None
                    \/ key = RateLimitRemaining /\ remaining # None}
  IN [key \in present |->
        IF key = "link" THEN link[1]
        ELSE IF key = RateLimitLimit THEN limit[1] ELSE remaining[1]]

Url1 == "https://api.github.com/repositories/7833168/pulls?state=open&page=1"
Url2 == "https://api.github.com/repositories/7833168/pulls?state=open&page=2"
Url3 == "https://api.github.com/repositories/7833168/pulls?state=open&page=3"

Link(url, rel) == [url |-> url, rel |-> rel]

\* Link headers without a next relation: none at all, the empty string, the
\* relations of a last page, a link-value without rel.
LinksWithoutNext ==
  { None,
    Some(<< >>),
    Some(<<Link(Url1, <<"prev">>), Link(Url1, <<"first">>)>>),
    Some(<<Link(Url2, << >>)>>) }

\* Link headers with a next relation; in the second the later link-value wins.
LinksWithNext ==
  { Some(<<Link(Url2, <<"next">>), Link(Url3, <<"last">>)>>),
    Some(<<Link(Url2, <<"next">>), Link(Url3, <<"last", "next">>)>>) }

Pr(number) == [number |-> number]

\* The records of a page: none, two, three.
PageData == { << >>, <<Pr(7), Pr(3)>>, <<Pr(5), Pr(7), Pr(4)>> }

\* The rate-limit headers of a page of pull requests, <<limit, remaining>>:
\* the API sends both on every answer to this request.
PageRates == { <<Some(<<"6", "0">>), Some(<<"5", "9">>)>> }

\* The rate-limit headers of the other responses.
Rates ==
  { <<None, None>>,
    <<Some(<<"6", "0">>), None>>,
    <<None, Some(<<"5", "9">>)>>,
    <<Some(<<"6", "0">>), Some(<< >>)>>,
    <<Some(<<"6", "0">>), Some(<<"0">>)>>,
    <<Some(<<"6", "0">>), Some(<<"5", "9">>)>> }

\* The answers to the request for page number n of the open pull requests,
\* of a resource that ends after MaxPages pages at the latest.
PageResponses(n) ==
  { [status |-> 200, headers |-> Headers(link, rate[1], rate[2]), data |-> data] :
      link \in LinksWithoutNext \cup (IF n < MaxPages THEN LinksWithNext ELSE {}),
      rate \in PageRates, data \in PageData }

PrResponses(prId) ==
  { [status |-> 200, headers |-> Headers(None, rate[1], rate[2]),
     data |-> [number |-> prId]] : rate \in Rates }

\* The errors axios rejects with: thrown before the request was made, no
\* response received, a response with an error status (axios sets request
\* on every error that has a response).
ErrorsOf(rates) ==
  { [message |-> "Request aborted", request |-> FALSE, response |-> None],
    [message |-> "connect ECONNREFUSED", request |-> TRUE, response |-> None] }
  \cup
  { [message |-> "Request failed with status code 422", request |-> TRUE,
     response |-> Some([status |-> 422,
                        headers |-> Headers(None, rate[1], rate[2]),
                        data |-> << >>])] : rate \in rates }

PrIds == {42}

Refs == { <<"m">>, <<"f", "/", "x">> }

Sha == <<"7", "e", "2", "0", "c", "1">>

\* The options of setCommitStatus.
StatusOptions ==
  { [state |-> "success", context |-> "ci"],
    [state |-> "failure", context |-> "ci", description |-> "2 failed"] }

\* The calls of compare, getCommitDate and setCommitStatus a caller makes.
OpCalls ==
  { [name |-> "compare", args |-> <<head, <<"m">> >>] : head \in Refs }
  \cup { [name |-> "getCommitDate", args |-> << <<"f", "/", "x">> >>] }
  \cup { [name |-> "setCommitStatus", args |-> <<Sha, options>>] :
           options \in StatusOptions }

\* Timestamps of the API: two on the same day and one in the year after.
T0930 ==
  Str(<<"2","0","1","9","-","0","3","-","0","1","T",
        "0","9",":","3","0",":","0","0","Z">>)
T1005 ==
  Str(<<"2","0","1","9","-","0","3","-","0","1","T",
        "1","0",":","0","5",":","0","7","Z">>)
TLeap ==
  Str(<<"2","0","2","0","-","0","2","-","2","9","T",
        "0","0",":","0","0",":","0","0","Z">>)

\* <<author's date, committer's date>> of a commit: committed when
\* authored, committed later, authored later (a commit date set back), and
\* a year apart.
CommitDates ==
  { <<T0930, T0930>>, <<T0930, T1005>>, <<T1005, T0930>>, <<TLeap, T1005>> }

Commit(authorDate, committerDate) ==
  [author |-> [date |-> authorDate], committer |-> [date |-> committerDate]]

\* The rate-limit headers of the answers to these operations.
OpRates == { <<None, None>>, <<Some(<<"6", "0">>), Some(<<"5", "9">>)>> }

\* The bodies the API can answer a call with.
OpData(call) ==
  IF call.name = "compare"
  THEN { [ahead_by |-> ahead, commits |-> commits] :
           ahead \in {0, 2},
           commits \in { << >>,
                         << [sha |-> Sha,
                             commit |-> Commit(<<"2">>, <<"2">>)] >> } }
  ELSE IF call.name = "getCommitDate"
  THEN { [sha |-> Sha, commit |-> Commit(d[1], d[2])] : d \in CommitDates }
  ELSE { [state |-> call.args[2].state] }

OpResponses(call) ==
  { [status |-> 200, headers |-> Headers(None, rate[1], rate[2]),
     data |-> data] : rate \in OpRates, data \in OpData(call) }

----------------------------------------------------------------------------
(* The state machine.                                                       *)

Constructed ==
  /\ now = 0
  /\ thr = [c \in Clients |-> ThrottleInit]
  /\ rateLog = [c \in Clients |-> << >>]
  /\ seen = [c \in Clients |-> None]
  /\ out = << >>
  /\ net = [caller \in Callers |-> None]
  /\ gen = [t \in Traversals |-> GenInit]
  /\ sent = [t \in Traversals |-> << >>]
  /\ rx = [t \in Traversals |-> << >>]
  /\ yielded = [t \in Traversals |-> << >>]
  /\ ops = [g \in GetPrCallers |-> OpInit]
  /\ client = [c \in Clients |-> GithubApi(getRequestLogger(c), Secret)]
  /\ calls = [o \in OpCallers |-> CallInit]
  /\ cache = [ctx \in Contexts |-> None]
  /\ built = [ctx \in Contexts |-> 0]
  /\ assigned = [ctx \in Contexts |-> None]
  /\ handed = [ctx \in Contexts |-> {}]

\* The upstream resource has at most MaxPages pages.
Init == Constructed /\ endless = FALSE

\* The upstream resource gives a next relation as often as it likes.  The
\* histories sent, rx and yielded, which no step of the program reads, are
\* not kept then.
InitEndless == Constructed /\ endless = TRUE

\* The Client a caller holds (getGithubApi gives each context its own): g2
\* works on c2, the others on c1.  The throttle of a Client is touched only
\* by the task that handles a settled Transport call, so one caller per
\* Client already produces every order of settled calls on it.
ClientOf(caller) == IF caller = "g2" THEN "c2" ELSE "c1"

IsRateLine(e) == e.k = "log" /\ e.type = "githubRateLimit"

IsCheck(e) == e.k = "check"

\* The 'rate limit' lines among the events ev of a task at `now`.
RateLines(ev) ==
  LET lines == SelectSeq(ev, IsRateLine)
  IN [i \in DOMAIN lines |->
        [at |-> now, remaining |-> lines[i].remaining, total |-> lines[i].total]]

\* The pair last handed to the throttled logger, and whether it was logged.
Seen(old, ev) ==
  LET checks == SelectSeq(ev, IsCheck)
  IN IF checks # << >> /\ Truthy(checks[1].headers, RateLimitLimit)
                       /\ Truthy(checks[1].headers, RateLimitRemaining)
     THEN Some([args |-> <<parseFloat(checks[1].headers[RateLimitRemaining]),
                           parseFloat(checks[1].headers[RateLimitLimit])>>,
                logged |-> RateLines(ev) # << >>])
     ELSE IF old # None /\ RateLines(ev) # << >>
     THEN Some([old[1] EXCEPT !.logged = TRUE])
     ELSE old

\* As Dispatched, with req keeping its last failure's status in the
\* Transport's defaults.
Dispatched_setsDefaults(c, q) ==
  /\ client' = [client EXCEPT ![c].ax.baseURL =
                  IF \E i \in DOMAIN q.ev : q.ev[i].k = "throw" THEN "" ELSE @]
  /\ thr' = [thr EXCEPT ![c] = q.t]
  /\ rateLog' = [rateLog EXCEPT ![c] = @ \o RateLines(q.ev)]
  /\ seen' = [seen EXCEPT ![c] = Seen(@, q.ev)]

\* The Client's part of a task that ran the dispatcher: q is what req did.
Dispatched(c, q) ==
  /\ client' = client
  /\ thr' = [thr EXCEPT ![c] = q.t]
  /\ rateLog' = [rateLog EXCEPT ![c] = @ \o RateLines(q.ev)]
  /\ seen' = [seen EXCEPT ![c] = Seen(@, q.ev)]

\* As Ran, with one queue of urls for all the traversals of the Client.
Ran_sharedUrls(t, r) ==
  /\ gen' = [u \in Traversals |->
               IF u = t THEN r.g ELSE [gen[u] EXCEPT !.urls = r.g.urls]]
  /\ net' = [net EXCEPT ![t] = r.ax]
  /\ yielded' = IF endless THEN yielded ELSE [yielded EXCEPT ![t] = @ \o r.ys]
  /\ sent' = IF endless THEN sent ELSE [sent EXCEPT ![t] = @ \o r.ax]

\* The traversal's part of a task: r is what the generator body did.
Ran(t, r) ==
  /\ gen' = [gen EXCEPT ![t] = r.g]
  /\ net' = [net EXCEPT ![t] = r.ax]
  /\ yielded' = IF endless THEN yielded ELSE [yielded EXCEPT ![t] = @ \o r.ys]
  /\ sent' = IF endless THEN sent ELSE [sent EXCEPT ![t] = @ \o r.ax]

\* What the upstream can answer to the request of traversal t in flight.
Upstream(t) ==
  IF endless THEN PageResponses(1) ELSE PageResponses(Len(rx[t]) + 1)

\* The consumer calls next() on traversal t.
Pull(t) ==
  /\ gen[t].pc \in {"start", "yield", "await"}
  /\ gen[t].pending < MaxPending
  /\ IF gen[t].pc = "await"
     THEN /\ gen' = [gen EXCEPT ![t].pending = @ + 1]
          /\ out' = << [k |-> "next", caller |-> t] >>
          /\ UNCHANGED <<yielded, sent, net>>
     ELSE LET r == Resume(t, gen[t])
          IN /\ Ran(t, r)
             /\ out' = << [k |-> "next", caller |-> t] >> \o r.ev
  /\ UNCHANGED <<now, thr, rateLog, seen, rx, ops, endless, client, calls, cacheVars>>

\* As AfterGet, taking a failed fetch for the end of the pages.
AfterGet_endsOnError(t, g, q) ==
  IF q.ok THEN Received(t, g, q.value) ELSE LoopHead(t, g)

\* The generator body after the await of this.get(...) settled as q.
AfterGet(t, g, q) ==
  IF q.ok THEN Received(t, g, q.value) ELSE GenThrow(g, q.value)

\* The Transport call of traversal t resolves with a page.
AxResolvesPage(t) ==
  /\ net[t] # None
  /\ \E resp \in Upstream(t) :
       LET q == reqThen(thr[ClientOf(t)], now, t, resp)
           r == AfterGet(t, gen[t], q)
       IN /\ Dispatched(ClientOf(t), q)
          /\ Ran(t, r)
          /\ rx' = IF endless THEN rx ELSE [rx EXCEPT ![t] = Append(@, resp)]
          /\ out' = << [k |-> "resolved", caller |-> t, value |-> resp] >>
                    \o q.ev \o r.ev
  /\ UNCHANGED <<now, ops, endless, calls, cacheVars>>

\* The Transport call of traversal t rejects.
AxRejectsPage(t) ==
  /\ net[t] # None
  /\ \E error \in ErrorsOf(PageRates) :
       LET q == reqCatch(thr[ClientOf(t)], now, t, net[t][1], error)
           r == AfterGet(t, gen[t], q)
       IN /\ Dispatched(ClientOf(t), q)
          /\ Ran(t, r)
          /\ out' = << [k |-> "rejected", caller |-> t, error |-> error] >>
                    \o q.ev \o r.ev
  /\ UNCHANGED <<now, rx, ops, endless, calls, cacheVars>>

TotalCalls == ops["g1"].n + ops["g2"].n + calls["o1"].n

\* Caller g calls getPr(prId) on its Client.
CallGetPr(g) ==
  /\ ops[g].pc # "await"
  /\ TotalCalls < MaxCalls
  /\ \E prId \in PrIds :
       LET r == getPr(g, prId)
       IN /\ ops' = [ops EXCEPT ![g] = [pc |-> "await", prId |-> prId,
                                        result |-> None, err |-> None,
                                        n |-> @.n + 1]]
          /\ net' = [net EXCEPT ![g] = Some(r.ax)]
          /\ out' = << [k |-> "getPr", caller |-> g, prId |-> prId] >> \o r.ev
  /\ UNCHANGED <<now, thr, rateLog, seen, gen, sent, rx, yielded, endless, client,
               calls, cacheVars>>

\* getPr after the await of this.get(...) settled as q.
AfterGetPr(op, q) ==
  IF q.ok THEN [op EXCEPT !.pc = "returned", !.result = Some(q.value.data)]
  ELSE [op EXCEPT !.pc = "threw", !.err = Some(q.value)]

\* The Transport call of getPr caller g resolves.
AxResolvesPr(g) ==
  /\ net[g] # None
  /\ \E resp \in PrResponses(ops[g].prId) :
       LET q == reqThen(thr[ClientOf(g)], now, g, resp)
       IN /\ Dispatched(ClientOf(g), q)
          /\ ops' = [ops EXCEPT ![g] = AfterGetPr(@, q)]
          /\ out' = << [k |-> "resolved", caller |-> g, value |-> resp] >>
                    \o q.ev
  /\ net' = [net EXCEPT ![g] = None]
  /\ UNCHANGED <<now, gen, sent, rx, yielded, endless, calls, cacheVars>>

\* The Transport call of getPr caller g rejects.
AxRejectsPr(g) ==
  /\ net[g] # None
  /\ \E error \in ErrorsOf(Rates) :
       LET q == reqCatch(thr[ClientOf(g)], now, g, net[g][1], error)
       IN /\ Dispatched(ClientOf(g), q)
          /\ ops' = [ops EXCEPT ![g] = AfterGetPr(@, q)]
          /\ out' = << [k |-> "rejected", caller |-> g, error |-> error] >>
                    \o q.ev
  /\ net' = [net EXCEPT ![g] = None]
  /\ UNCHANGED <<now, gen, sent, rx, yielded, endless, calls, cacheVars>>

\* The operation's part up to its await.
Invoke(caller, call) ==
  IF call.name = "compare"
  THEN compare(caller, call.args[1], call.args[2])
  ELSE IF call.name = "getCommitDate"
  THEN GithubApi_getCommitDate(caller, call.args[1])
  ELSE setCommitStatus(caller, call.args[1], call.args[2])

\* As Settle, calling the dispatcher once more when it failed.
Settle_retries(caller, call, q) ==
  IF ~q.ok
  THEN [ok |-> FALSE, value |-> q.value, ev |-> Invoke(caller, call).ev]
  ELSE IF call.name = "compare" THEN compareThen(caller, q.value)
  ELSE IF call.name = "getCommitDate" THEN getCommitDateThen(caller, q.value)
  ELSE setCommitStatusThen(caller, q.value)

\* The operation's part after its await settled as q: an error of the
\* dispatcher leaves the operation as it is.
Settle(caller, call, q) ==
  IF ~q.ok THEN [ok |-> FALSE, value |-> q.value, ev |-> << >>]
  ELSE IF call.name = "compare" THEN compareThen(caller, q.value)
  ELSE IF call.name = "getCommitDate" THEN getCommitDateThen(caller, q.value)
  ELSE setCommitStatusThen(caller, q.value)

\* The caller's state and the call's last event, once the call ended as a.
CallEnded(o, a) ==
  /\ calls' = [calls EXCEPT ![o].pc = IF a.ok THEN "returned" ELSE "threw",
                            ![o].result = IF a.ok THEN Some(a.value) ELSE None,
                            ![o].err = IF a.ok THEN None ELSE Some(a.value)]
  /\ net' = [net EXCEPT ![o] = None]

\* Caller o calls compare, getCommitDate or setCommitStatus on its Client.
Call(o) ==
  /\ calls[o].pc # "await"
  /\ TotalCalls < MaxCalls
  /\ \E call \in OpCalls :
       LET r == Invoke(o, call)
       IN /\ calls' = [calls EXCEPT ![o] = [pc |-> "await", op |-> Some(call),
                                            result |-> None, err |-> None,
                                            n |-> @.n + 1]]
          /\ net' = [net EXCEPT ![o] = Some(r.ax)]
          /\ out' = << [k |-> "call", caller |-> o, op |-> call] >> \o r.ev
  /\ UNCHANGED <<now, thr, rateLog, seen, gen, sent, rx, yielded, ops, endless,
               client, cacheVars>>

\* What the call's end adds to the task's events.
Outcome(o, a) ==
  << [k |-> IF a.ok THEN "returned" ELSE "threw", caller |-> o,
      value |-> a.value] >>

\* The Transport call of caller o resolves.
AxResolvesCall(o) ==
  /\ net[o] # None
  /\ \E resp \in OpResponses(calls[o].op[1]) :
       LET q == reqThen(thr[ClientOf(o)], now, o, resp)
           a == Settle(o, calls[o].op[1], q)
       IN /\ Dispatched(ClientOf(o), q)
          /\ CallEnded(o, a)
          /\ out' = << [k |-> "resolved", caller |-> o, value |-> resp] >>
                    \o q.ev \o a.ev \o Outcome(o, a)
  /\ UNCHANGED <<now, gen, sent, rx, yielded, ops, endless, cacheVars>>

\* The Transport call of caller o rejects.
AxRejectsCall(o) ==
  /\ net[o] # None
  /\ \E error \in ErrorsOf(OpRates) :
       LET q == reqCatch(thr[ClientOf(o)], now, o, net[o][1], error)
           a == Settle(o, calls[o].op[1], q)
       IN /\ Dispatched(ClientOf(o), q)
          /\ CallEnded(o, a)
          /\ out' = << [k |-> "rejected", caller |-> o, error |-> error] >>
                    \o q.ev \o a.ev \o Outcome(o, a)
  /\ UNCHANGED <<now, gen, sent, rx, yielded, ops, endless, cacheVars>>

\* The Clients a caller substitutes for the ones the factory makes.
Stubs ==
  { [id |-> <<name, 0>>, api |-> GithubApi("log:" \o name, "none")] :
      name \in {"stub1", "stub2"} }

\* Some code running for context ctx asks for the context's Client.
Access(ctx) ==
  /\ built[ctx] < MaxCalls
  /\ LET r == getGithubApi(cache, built[ctx], ctx)
     IN /\ cache' = r.cache
        /\ built' = [built EXCEPT ![ctx] = @ + r.made]
        /\ handed' = [handed EXCEPT ![ctx] = @ \cup {r.value}]
        /\ out' = << [k |-> "call", caller |-> ctx, op |-> "getGithubApi"],
                     [k |-> "returned", caller |-> ctx, value |-> r.value] >>
  /\ UNCHANGED <<now, thr, rateLog, seen, net, gen, sent, rx, yielded, ops,
               endless, client, calls, assigned>>

\* Some code gives the cache a Client of its own for context ctx.
Override(ctx) ==
  /\ \E stub \in Stubs :
       /\ cache' = assignGithubApi(cache, ctx, stub)
       /\ assigned' = [assigned EXCEPT ![ctx] = Some(stub)]
       /\ out' = << [k |-> "call", caller |-> ctx, op |-> "assignGithubApi",
                     value |-> stub] >>
  /\ handed' = [handed EXCEPT ![ctx] = {}]
  /\ UNCHANGED <<now, thr, rateLog, seen, net, gen, sent, rx, yielded, ops,
               endless, client, calls, built>>

Remove(seq, i) == SubSeq(seq, 1, i - 1) \o SubSeq(seq, i + 1, Len(seq))

\* A pending timeout of Client c's throttle is due and its callback runs.
TimerFires(c) ==
  /\ \E i \in DOMAIN thr[c].timers :
       /\ thr[c].timers[i] <= now
       /\ LET r == timerExpired([thr[c] EXCEPT !.timers = Remove(@, i)], now)
              ev == [j \in DOMAIN r.calls |->
                       logRateLimitInfo(r.calls[j][1], r.calls[j][2])]
          IN /\ Dispatched(c, [t |-> r.t, ev |-> ev])
             /\ out' = << [k |-> "timer", client |-> c] >> \o ev
  /\ UNCHANGED <<now, net, gen, sent, rx, yielded, ops, endless, calls, cacheVars>>

TimerDue == \E c \in Clients : \E i \in DOMAIN thr[c].timers : thr[c].timers[i] <= now

\* Time passes; a due timeout runs before the clock's next step.
Tick ==
  /\ ~TimerDue
  /\ now + TickMs <= MaxTicks * TickMs
  /\ now' = now + TickMs
  /\ out' = << >>
  /\ UNCHANGED <<thr, rateLog, seen, net, gen, sent, rx, yielded, ops, endless,
               client, calls, cacheVars>>

\* One traversal of the open pull requests on Client c1.
Next ==
  \/ Pull("t1")
  \/ AxResolvesPage("t1")
  \/ AxRejectsPage("t1")
  \/ \E c \in Clients : TimerFires(c)
  \/ Tick

Spec == Init /\ [][Next]_vars

\* Every dispatched request eventually completes and the consumer keeps
\* pulling.
Fairness ==
  /\ WF_vars(Pull("t1"))
  /\ WF_vars(AxRejectsPage("t1") \/ AxResolvesPage("t1"))

\* One traversal of an upstream resource of any length, under Fairness.
FairSpec == InitEndless /\ [][Next]_vars /\ Fairness

\* getPr calls on two Clients.
NextCalls ==
  \/ \E g \in GetPrCallers : CallGetPr(g)
  \/ \E g \in GetPrCallers : AxResolvesPr(g)
  \/ \E g \in GetPrCallers : AxRejectsPr(g)
  \/ \E c \in Clients : TimerFires(c)
  \/ Tick

SpecCalls == Init /\ [][NextCalls]_vars

\* compare, getCommitDate, setCommitStatus and getPr on one Client.
NextOps ==
  \/ Call("o1")
  \/ AxResolvesCall("o1")
  \/ AxRejectsCall("o1")
  \/ CallGetPr("g1")
  \/ AxResolvesPr("g1")
  \/ AxRejectsPr("g1")
  \/ \E c \in Clients : TimerFires(c)
  \/ Tick

SpecOps == Init /\ [][NextOps]_vars

\* Accesses to the cache of Clients and overrides of it, for two contexts.
NextCache ==
  \/ \E ctx \in Contexts : Access(ctx)
  \/ \E ctx \in Contexts : Override(ctx)

SpecCache == Init /\ [][NextCache]_vars

\* Two traversals of the open pull requests on Client c1, their tasks in
\* any order, all within the ten seconds before the throttle's timer runs.
NextTwo ==
  \/ \E t \in Traversals : Pull(t)
  \/ \E t \in Traversals : AxResolvesPage(t)
  \/ \E t \in Traversals : AxRejectsPage(t)

SpecTwo == Init /\ [][NextTwo]_vars

----------------------------------------------------------------------------
(* Properties.                                                              *)

Pages(t) == [i \in DOMAIN rx[t] |-> rx[t][i].data]

LastPage(t) == rx[t][Len(rx[t])]

IsPrefix(a, b) == Len(a) <= Len(b) /\ a = SubSeq(b, 1, Len(a))

\* The link-values of a page's link header that name the relation next.
NextLinks(page) ==
  IF "link" \in DOMAIN page.headers
  THEN {i \in DOMAIN page.headers["link"] :
          \E j \in DOMAIN page.headers["link"][i].rel :
            page.headers["link"][i].rel[j] = "next"}
  ELSE {}

NextUrl(page) ==
  LET i == CHOOSE i \in NextLinks(page) : \A i2 \in NextLinks(page) : i2 <= i
  IN page.headers["link"][i].url

HasLink(page) == "link" \in DOMAIN page.headers /\ page.headers["link"] # << >>

\* Every page has a link header and only the last has no next relation.
Chain(pages) ==
  /\ pages # << >>
  /\ \A i \in DOMAIN pages :
       HasLink(pages[i]) /\ ((NextLinks(pages[i]) = {}) <=> (i = Len(pages)))

FirstRequest ==
  [method |-> "get", url |-> "/repos/elastic/kibana/pulls",
   params |-> Some([state |-> "open"]), data |-> None]

FollowUp(url) == [method |-> "get", url |-> url, params |-> None, data |-> None]

\* C1: over a chain of k pages, each with a link header and only the last
\* without a next relation, the traversal yields the concatenation of the
\* pages' records in page order and in received order, and issues exactly
\* k requests: the first for the open pull requests with state=open, each
\* later one for the next url of the page before it, unchanged.
Thm_C1 ==
  \A t \in Traversals :
    /\ \A i \in DOMAIN sent[t] :
         IF i = 1 THEN sent[t][i] = FirstRequest
         ELSE /\ i - 1 <= Len(rx[t])
              /\ NextLinks(rx[t][i - 1]) # {}
              /\ sent[t][i] = FollowUp(NextUrl(rx[t][i - 1]))
    /\ IsPrefix(yielded[t], Flatten(Pages(t)))
    /\ Chain(rx[t]) =>
         /\ Len(sent[t]) = Len(rx[t])
         /\ net[t] = None
         /\ gen[t].pc \in {"yield", "done"}
         /\ gen[t].pc = "done" => yielded[t] = Flatten(Pages(t))
    /\ gen[t].pc = "done" => Chain(rx[t])

Witness_C1 ==
  /\ gen["t1"].pc = "done"
  /\ Len(rx["t1"]) = 2
  /\ Len(rx["t1"][1].data) = 3
  /\ Len(rx["t1"][2].data) = 2
  /\ Len(yielded["t1"]) = 5
  /\ sent["t1"][2].url = Url3

\* C2: the request for page N+1 is issued only after every record of page N
\* was yielded, and only while a next() of the consumer is unresolved: a
\* consumer that stops pulling causes no further request.
Thm_C2 ==
  \A t \in Traversals :
    /\ Len(sent[t]) <= Len(rx[t]) + 1
    /\ Len(sent[t]) = Len(rx[t]) + 1 => yielded[t] = Flatten(Pages(t))
    /\ net[t] # None => Len(sent[t]) = Len(rx[t]) + 1 /\ gen[t].pending >= 1
    /\ gen[t].pending >= 1 => net[t] # None

Witness_C2 ==
  /\ net["t1"] # None
  /\ Len(rx["t1"]) = 1
  /\ Len(yielded["t1"]) = 2
  /\ Len(sent["t1"]) = 2

\* C3: when a fetched page has no link header at all, the traversal still
\* yields every record of that page, then fails with the missing-link-header
\* error at the check for the next page, and issues no further request.
Thm_C3 ==
  \A t \in Traversals :
    (rx[t] # << >> /\ "link" \notin DOMAIN LastPage(t).headers) =>
      /\ Len(sent[t]) = Len(rx[t])
      /\ net[t] = None
      /\ gen[t].pc \in {"yield", "failed"}
      /\ gen[t].pc = "yield" => gen[t].idx <= Len(LastPage(t).data)
      /\ gen[t].pc = "failed" =>
           /\ gen[t].err = Some([message |-> "missing link header",
                                 request |-> FALSE, response |-> None])
           /\ yielded[t] = Flatten(Pages(t))

Witness_C3 ==
  /\ gen["t1"].pc = "failed"
  /\ Len(rx["t1"]) = 2
  /\ "link" \notin DOMAIN LastPage("t1").headers
  /\ Len(LastPage("t1").data) = 2
  /\ Len(yielded["t1"]) = 4

Ended(t) == gen[t].pc \in {"done", "failed"}

\* The page fetched last, if any.
FetchedPage(t) == gen[t].page

\* The page fetched last has a link header without a next relation.
LastPageEnds(t) ==
  /\ FetchedPage(t) # None
  /\ HasLink(FetchedPage(t)[1])
  /\ NextLinks(FetchedPage(t)[1]) = {}

\* The page fetched last has no next relation.
NoNextFetched(t) == FetchedPage(t) # None /\ NextLinks(FetchedPage(t)[1]) = {}

\* C4, as stated: when every dispatched request completes and the consumer
\* keeps pulling, the traversal ends, whatever the upstream answers, and it
\* ends normally exactly when the queue of pending pages is empty: when the
\* last fetched page's link header has no next relation.
CX_C4 ==
  /\ <>Ended("t1")
  /\ [](Ended("t1") => (gen["t1"].pc = "done" <=> LastPageEnds("t1")))

\* C4, amended: when every dispatched request completes and the consumer
\* keeps pulling, the traversal ends once a fetched page has no next
\* relation (a fetch that fails ends it at once), and however it ends, it
\* ends normally exactly when the queue of pending pages is empty: when the
\* last fetched page's link header has no next relation.
Thm_C4 ==
  /\ NoNextFetched("t1") ~> Ended("t1")
  /\ [](gen["t1"].pc = "done" => gen["t1"].urls = << >>)
  /\ [](Ended("t1") =>
         /\ net["t1"] = None
         /\ gen["t1"].pc = "done" <=> LastPageEnds("t1"))

Witness_C4 ==
  /\ endless
  /\ gen["t1"].pc = "done"
  /\ gen["t1"].urls = << >>
  /\ FetchedPage("t1")[1].headers["link"] = <<Link(Url2, << >>)>>
  /\ Len(FetchedPage("t1")[1].data) = 3
  /\ rateLog["c1"] # << >>

Resolved(i) == out[i].k = "resolved"

Rejected(i) == out[i].k = "rejected"

\* The debug lines of the given type among the last task's events.
DebugLines(type) ==
  {i \in DOMAIN out :
     out[i].k = "log" /\ out[i].level = "debug" /\ out[i].type = type}

\* C5: on every response the dispatcher obtains, of a success or of a
\* failure, the response's headers are passed to checkForRateLimitInfo before
\* req returns the response or rethrows the error.
Thm_C5 ==
  \A i \in DOMAIN out :
    /\ Resolved(i) =>
         \E j, l \in DOMAIN out :
           /\ i < j /\ j < l
           /\ out[j].k = "check" /\ out[j].headers = out[i].value.headers
           /\ out[l].k = "return" /\ out[l].caller = out[i].caller
           /\ \A m \in DOMAIN out :
                (m > i /\ m < j) => out[m].k \notin {"return", "throw"}
    /\ (Rejected(i) /\ out[i].error.response # None) =>
         \E j, l \in DOMAIN out :
           /\ i < j /\ j < l
           /\ out[j].k = "check"
           /\ out[j].headers = out[i].error.response[1].headers
           /\ out[l].k = "throw" /\ out[l].caller = out[i].caller
           /\ \A m \in DOMAIN out :
                (m > i /\ m < j) => out[m].k \notin {"return", "throw"}

Witness_C5 ==
  /\ out # << >>
  /\ Rejected(1)
  /\ out[1].error.response # None
  /\ HasRateLimitInfo(out[1].error.response[1])
  /\ \E j \in DOMAIN out : out[j].k = "check"

\* What the caller of req got from it: the caller's failure, if it failed.
FailureOf(caller) ==
  IF caller \in Traversals
  THEN (IF gen[caller].pc = "failed" THEN gen[caller].err ELSE None)
  ELSE (IF ops[caller].pc = "threw" THEN ops[caller].err ELSE None)

\* C6: req makes exactly one Transport call, and when that call raises an
\* error of any kind, req makes no other call and raises that same error to
\* its caller.
Thm_C6 ==
  /\ \A i \in DOMAIN out :
       out[i].k = "req" =>
         /\ i + 1 \in DOMAIN out
         /\ out[i + 1].k = "ax"
         /\ out[i + 1].cfg = out[i].cfg
  /\ Cardinality({i \in DOMAIN out : out[i].k = "ax"})
       = Cardinality({i \in DOMAIN out : out[i].k = "req"})
  /\ \A i \in DOMAIN out :
       Rejected(i) =>
         /\ \E l \in DOMAIN out :
              /\ l > i
              /\ out[l].k = "throw"
              /\ out[l].caller = out[i].caller
              /\ out[l].error = out[i].error
         /\ \A l \in DOMAIN out :
              l > i => out[l].k \notin {"req", "ax", "return"}
         /\ FailureOf(out[i].caller) = Some(out[i].error)

Witness_C6 ==
  /\ out # << >>
  /\ Rejected(1)
  /\ out[1].error.request
  /\ out[1].error.response = None
  /\ ops["g1"].pc = "threw"

\* C7: a failed dispatch logs exactly one debug line of type
\* githubApiResponseError when the error carries a response, exactly one of
\* type githubApiRequestError when the request was made and no response
\* received, never both, and nothing for an error of neither kind.
Thm_C7 ==
  \A i \in DOMAIN out :
    Rejected(i) =>
      LET nResp == Cardinality(DebugLines("githubApiResponseError"))
          nReq == Cardinality(DebugLines("githubApiRequestError"))
      IN IF out[i].error.response # None THEN nResp = 1 /\ nReq = 0
         ELSE IF out[i].error.request THEN nResp = 0 /\ nReq = 1
         ELSE \A j \in DOMAIN out : out[j].k # "log"

Witness_C7 ==
  /\ out # << >>
  /\ Rejected(1)
  /\ out[1].error.response # None
  /\ DebugLines("githubApiResponseError") # {}
  /\ ops["g2"].pc = "threw"

\* C8: a Client logs at most one 'rate limit' line in any 10 seconds, and
\* the throttling of one Client does not suppress a line of another: the
\* first pair a Client observes is logged.
CX_C8 ==
  \A c \in Clients :
    /\ \A i, j \in DOMAIN rateLog[c] :
         i < j => rateLog[c][j].at - rateLog[c][i].at >= 10 * 1000
    /\ seen[c] # None => rateLog[c] # << >>

\* C9, as stated: every 'rate limit' line reports the pair of the call that
\* logs it; a call inside a window queues no line for later.
CX_C9 ==
  \A j \in DOMAIN out :
    IsRateLine(out[j]) =>
      \E i \in DOMAIN out :
        /\ i < j
        /\ out[i].k = "check"
        /\ <<out[j].remaining, out[j].total>> = RateLimitArgs(out[i])

\* C9, amended: every 'rate limit' line reports the pair the Client observed
\* last; the calls inside a window queue one line, logged when the window
\* ends with the last pair observed, and no pair is logged twice: the
\* earlier pairs of the window are dropped.
Thm_C9 ==
  [][\A c \in Clients :
       rateLog'[c] # rateLog[c] =>
         /\ Len(rateLog'[c]) = Len(rateLog[c]) + 1
         /\ SubSeq(rateLog'[c], 1, Len(rateLog[c])) = rateLog[c]
         /\ seen'[c] # None
         /\ LET line == rateLog'[c][Len(rateLog'[c])]
            IN /\ <<line.remaining, line.total>> = seen'[c][1].args
               /\ line.at = now'
         /\ \/ \E i \in DOMAIN out' : out'[i].k = "check"
            \/ seen[c] # None /\ ~seen[c][1].logged]_vars

Witness_C9 ==
  /\ out # << >>
  /\ out[1].k = "timer"
  /\ Len(out) = 2
  /\ TotalCalls = 3
  /\ seen["c2"] = None
  /\ Len(rateLog["c1"]) = 2
  /\ rateLog["c1"][1].remaining # rateLog["c1"][2].remaining

\* C10: a response without the remaining header, the limit header or both
\* makes checkForRateLimitInfo log nothing, raise nothing (req returns the
\* response, or rethrows the error, as it would) and leave the throttle as
\* it was.
Thm_C10 ==
  [][\A i \in DOMAIN out' :
       (/\ out'[i].k = "check"
        /\ \/ RateLimitLimit \notin DOMAIN out'[i].headers
           \/ RateLimitRemaining \notin DOMAIN out'[i].headers) =>
         /\ thr' = thr
         /\ rateLog' = rateLog
         /\ \A j \in DOMAIN out' : ~IsRateLine(out'[j])
         /\ out'[1].k = "resolved" =>
              \E l \in DOMAIN out' :
                out'[l].k = "return" /\ out'[l].value = out'[1].value
         /\ out'[1].k = "rejected" =>
              \E l \in DOMAIN out' :
                out'[l].k = "throw" /\ out'[l].error = out'[1].error]_vars

Witness_C10 ==
  /\ thr["c1"].lastArgs # None
  /\ \E i \in DOMAIN out :
       /\ out[i].k = "check"
       /\ RateLimitLimit \in DOMAIN out[i].headers
       /\ RateLimitRemaining \notin DOMAIN out[i].headers
  /\ out[1].caller = "g1"

\* The link header of a page is anomalous: missing or empty, or present with
\* no link-value that parses to a relation.
Anomalous(page) == ~HasLink(page) \/ Rels(page.headers["link"]) = {}

ProtocolErrors == {"missing link header", "unable to parse link header"}

\* The last task was a step of traversal t.
StepOf(t) == out # << >> /\ out[1].k \in {"next", "resolved"} /\ out[1].caller = t

\* C14: every violation of the pagination protocol (a missing link header,
\* an unparsable link header) is raised as a fatal error, after the
\* anomalous payload was logged, and is never silently defaulted: a
\* traversal does not end normally on an anomalous link header, and the
\* task that raises the error logged at error level before.
CX_C14 ==
  \A t \in Traversals :
    /\ (gen[t].pc = "done" /\ rx[t] # << >>) => ~Anomalous(LastPage(t))
    /\ (/\ gen[t].pc = "failed"
        /\ gen[t].err[1].message \in ProtocolErrors
        /\ StepOf(t)) =>
         \E i \in DOMAIN out : out[i].k = "log" /\ out[i].level = "error"

\* C18: the queue of pending page references of a traversal holds at most
\* one entry (none at all while the traversal waits for a page or is
\* suspended at a yield), a task issues at most one page request, and a
\* request is in flight only when every earlier one was answered.
Thm_C18 ==
  \A t \in Traversals :
    /\ Len(gen[t].urls) <= 1
    /\ gen[t].pc # "start" => gen[t].urls = << >>
    /\ Cardinality({i \in DOMAIN out : out[i].k = "ax"}) <= 1
    /\ net[t] # None => gen[t].pc = "await" /\ Len(sent[t]) = Len(rx[t]) + 1
    /\ gen[t].pc = "await" => net[t] # None

Witness_C18 ==
  /\ gen["t1"].pc = "await"
  /\ gen["t1"].urls = << >>
  /\ Len(rx["t1"]) = 1
  /\ Len(rx["t1"][1].data) = 3
  /\ sent["t1"][2].url = Url3
  /\ Cardinality({i \in DOMAIN out : out[i].k = "ax"}) = 1

\* C19: when the dispatcher fails while fetching page N, the traversal
\* fails with that same error in the same task, yields no record of page N
\* or later, issues no further request, and the records yielded are exactly
\* those of the pages 1..N-1, in order.
Thm_C19 ==
  [][\A t \in Traversals :
       /\ (out' # << >> /\ out'[1].k = "rejected" /\ out'[1].caller = t) =>
            /\ gen'[t].pc = "failed"
            /\ gen'[t].err = Some(out'[1].error)
            /\ Len(sent[t]) = Len(rx[t]) + 1
            /\ yielded[t] = Flatten(Pages(t))
            /\ yielded'[t] = yielded[t]
            /\ rx'[t] = rx[t]
            /\ sent'[t] = sent[t]
            /\ net'[t] = None
       /\ gen[t].pc = "failed" =>
            /\ gen'[t] = gen[t]
            /\ yielded'[t] = yielded[t]
            /\ sent'[t] = sent[t]
            /\ net'[t] = None]_vars

Witness_C19 ==
  /\ out # << >>
  /\ out[1].k = "rejected"
  /\ out[1].error.response # None
  /\ gen["t1"].pc = "failed"
  /\ gen["t1"].err = Some(out[1].error)
  /\ Len(rx["t1"]) = 1
  /\ Len(sent["t1"]) = 2
  /\ Len(yielded["t1"]) = 3

\* The last task settled a call of operation name by caller o.
Settled(o, name) ==
  /\ out # << >>
  /\ out[1].k \in {"resolved", "rejected"}
  /\ out[1].caller = o
  /\ calls[o].op[1].name = name

LastEvent == out[Len(out)]

ErrorLines == {i \in DOMAIN out : out[i].k = "log" /\ out[i].level = "error"}

ProtocolError(e) == e.k = "threw" /\ e.value = MkError("Unexpected github response")

\* C11: when the response of compare has ahead_by > 0 and an empty commits
\* list, compare logs the response body at error level and throws the
\* protocol error, returning nothing; in every other case, ahead_by = 0
\* with an empty list included, it returns totalMissingCommits = ahead_by
\* and missingCommits = commits, unchanged.
Thm_C11 ==
  \A o \in OpCallers :
    (Settled(o, "compare") /\ out[1].k = "resolved") =>
      LET data == out[1].value.data
      IN IF data.ahead_by > 0 /\ data.commits = << >>
         THEN /\ ProtocolError(LastEvent)
              /\ calls[o].pc = "threw"
              /\ calls[o].result = None
              /\ \E i \in ErrorLines : out[i].respBody = data
         ELSE /\ LastEvent.k = "returned"
              /\ LastEvent.value = [totalMissingCommits |-> data.ahead_by,
                                    missingCommits |-> data.commits]
              /\ calls[o].pc = "returned"
              /\ calls[o].result = Some(LastEvent.value)
              /\ ErrorLines = {}

Witness_C11 ==
  /\ Settled("o1", "compare")
  /\ out[1].k = "resolved"
  /\ out[1].value.data.ahead_by = 0
  /\ out[1].value.data.commits = << >>
  /\ calls["o1"].pc = "returned"
  /\ calls["o1"].result[1].totalMissingCommits = 0

\* The later of two instants.
Later(a, b) == CHOOSE m \in {a, b} : m >= a /\ m >= b

\* C12: for the author's timestamp T1 and the committer's timestamp T2 of
\* the commit, getCommitDate returns max(T1, T2), whichever is later and
\* when they are equal.
Thm_C12 ==
  \A o \in OpCallers :
    (Settled(o, "getCommitDate") /\ out[1].k = "resolved") =>
      LET commit == out[1].value.data.commit
      IN /\ calls[o].pc = "returned"
         /\ calls[o].result =
              Some(Later(Date(commit.author.date), Date(commit.committer.date)))

Witness_C12 ==
  /\ Settled("o1", "getCommitDate")
  /\ out[1].k = "resolved"
  /\ out[1].value.data.commit = Commit(T1005, T0930)
  /\ calls["o1"].result = Some(1551434707)

\* The events of kind k by caller among the events ev.
EventsOf(ev, k, caller) ==
  {i \in DOMAIN ev : ev[i].k = k /\ ev[i].caller = caller}

MethodOf(name) == IF name = "setCommitStatus" THEN "post" ELSE "get"

\* C16: every invocation of compare, getCommitDate, setCommitStatus or
\* getPr calls the dispatcher once, and the dispatcher the Transport once,
\* with GET (POST for setCommitStatus), also when the same arguments were
\* used before; the task that handles the answer calls neither again, and
\* what getPr returns is the body of this answer.
Thm_C16 ==
  [][/\ \A o \in OpCallers :
         /\ calls'[o].n # calls[o].n =>
              /\ calls'[o].n = calls[o].n + 1
              /\ Cardinality(EventsOf(out', "req", o)) = 1
              /\ Cardinality(EventsOf(out', "ax", o)) = 1
              /\ \A i \in EventsOf(out', "ax", o) :
                   /\ out'[i].cfg.method = MethodOf(calls'[o].op[1].name)
                   /\ net'[o] = Some(out'[i].cfg)
         /\ calls'[o].n = calls[o].n =>
              EventsOf(out', "req", o) \cup EventsOf(out', "ax", o) = {}
     /\ \A g \in GetPrCallers :
         /\ ops'[g].n # ops[g].n =>
              /\ ops'[g].n = ops[g].n + 1
              /\ Cardinality(EventsOf(out', "req", g)) = 1
              /\ Cardinality(EventsOf(out', "ax", g)) = 1
              /\ \A i \in EventsOf(out', "ax", g) :
                   /\ out'[i].cfg.method = "get"
                   /\ net'[g] = Some(out'[i].cfg)
         /\ ops'[g].n = ops[g].n =>
              EventsOf(out', "req", g) \cup EventsOf(out', "ax", g) = {}
         /\ (ops'[g].pc = "returned" /\ ops[g].pc = "await") =>
              ops'[g].result = Some(out'[1].value.data)]_vars

Witness_C16 ==
  /\ calls["o1"].n = 2
  /\ calls["o1"].pc = "await"
  /\ calls["o1"].op[1].name = "setCommitStatus"
  /\ out # << >>
  /\ out[1].k = "call"
  /\ Cardinality(EventsOf(Tail(out), "ax", "o1")) = 1
  /\ net["o1"][1].method = "post"
  /\ net["o1"][1].data = Some([state |-> "success", context |-> "ci"])

\* C17: no step changes a Client's log or Transport configuration (base
\* URL, Authorization, User-Agent and Accept headers): they stay as the
\* constructor made them, and no Transport call carries a configuration
\* beyond method, url, params and data.
Thm_C17 ==
  /\ [][client' = client]_vars
  /\ [](\A c \in Clients : client[c] = GithubApi(getRequestLogger(c), Secret))
  /\ [](\A i \in DOMAIN out :
          out[i].k = "ax" =>
            DOMAIN out[i].cfg = {"method", "url", "params", "data"})

Witness_C17 ==
  /\ net["o1"] # None
  /\ net["g1"] # None
  /\ thr["c1"] # ThrottleInit
  /\ rateLog["c1"] # << >>
  /\ ops["g1"].n + calls["o1"].n = 3

\* C20: when compare throws its protocol error, the dispatcher had returned
\* the response: its headers were passed to checkForRateLimitInfo, then req
\* returned it, then exactly one error-level line was logged, then compare
\* threw; the task logs no debug line of the dispatcher.
Thm_C20 ==
  \A o \in OpCallers :
    (Settled(o, "compare") /\ ProtocolError(LastEvent)) =>
      /\ out[1].k = "resolved"
      /\ Cardinality(ErrorLines) = 1
      /\ \E j, l \in DOMAIN out :
           /\ j < l
           /\ out[j].k = "check" /\ out[j].headers = out[1].value.headers
           /\ out[l].k = "return" /\ out[l].value = out[1].value
           /\ \A e \in ErrorLines : l < e /\ e < Len(out)
      /\ DebugLines("githubApiResponseError") = {}
      /\ DebugLines("githubApiRequestError") = {}
      /\ \A i \in DOMAIN out : out[i].k # "throw"

Witness_C20 ==
  /\ Settled("o1", "compare")
  /\ ProtocolError(LastEvent)
  /\ HasRateLimitInfo(out[1].value)
  /\ \E i \in DOMAIN out : IsRateLine(out[i])
  /\ calls["o1"].pc = "threw"

\* The Client the last task's access to the cache returned for ctx, if the
\* last task was one.
Accessed(ctx) ==
  IF /\ Len(out) = 2
     /\ out[1] = [k |-> "call", caller |-> ctx, op |-> "getGithubApi"]
  THEN Some(out[2].value)
  ELSE None

Other(t) == CHOOSE u \in Traversals : u # t

\* What traversal t holds and what it did so far.
Own(t) == <<gen[t], net[t], sent[t], rx[t], yielded[t]>>

\* The last task ran for traversal t: its first event and every request in
\* it are t's.
TaskOf(t) ==
  /\ out # << >>
  /\ out[1].caller = t
  /\ \A i \in DOMAIN out : out[i].k \in {"req", "ax"} => out[i].caller = t

\* Traversal t is where a traversal running alone is after the pages rx[t]:
\* its requests are the first one and the next urls of the pages it
\* received, its records are those pages' records in order, it has ended
\* only with all of them yielded, normally only after a chain of pages and
\* by failure only with its own error.
AsAlone(t) ==
  /\ \A i \in DOMAIN sent[t] :
       sent[t][i] = IF i = 1 THEN FirstRequest
                    ELSE FollowUp(NextUrl(rx[t][i - 1]))
  /\ Len(rx[t]) <= Len(sent[t])
  /\ Len(sent[t]) <= Len(rx[t]) + 1
  /\ net[t] # None <=> Len(sent[t]) = Len(rx[t]) + 1 /\ gen[t].pc = "await"
  /\ IsPrefix(yielded[t], Flatten(Pages(t)))
  /\ Ended(t) => yielded[t] = Flatten(Pages(t))
  /\ gen[t].pc = "done" => Chain(rx[t])
  /\ Chain(rx[t]) => gen[t].pc \in {"yield", "done"}
  /\ gen[t].pc = "failed" =>
       \/ Len(sent[t]) = Len(rx[t]) + 1
       \/ /\ Len(sent[t]) = Len(rx[t])
          /\ gen[t].err = Some(MkError("missing link header"))
          /\ ~HasLink(LastPage(t))

\* C15: with two traversals on one Client and their tasks in any order, a
\* task of one traversal leaves the other's state, requests, pages and
\* records as they were, also when the task ends its own traversal by a
\* failure, and each traversal is at every moment where a traversal running
\* alone is after the pages it received.
Thm_C15 ==
  /\ [][\A t \in Traversals :
          /\ TaskOf(t)' => Own(Other(t))' = Own(Other(t))
          /\ (TaskOf(t)' /\ gen'[t].pc = "failed") =>
               (~Ended(Other(t)) => ~Ended(Other(t))')]_vars
  /\ [](\A t \in Traversals : AsAlone(t))
  /\ [](out # << >> => \E t \in Traversals : TaskOf(t))

\* Traversal t1 failed when its request for the second page was rejected,
\* with t2's request in flight; t2 then received its second page and has
\* now finished, having yielded the five records of its two pages.
Witness_C15 ==
  /\ TaskOf("t2")
  /\ out[1].k = "next"
  /\ gen["t2"].pc = "done"
  /\ Len(rx["t2"]) = 2
  /\ Len(sent["t2"]) = 2
  /\ Len(yielded["t2"]) = 5
  /\ gen["t1"].pc = "failed"
  /\ gen["t1"].err # Some(MkError("missing link header"))
  /\ Len(rx["t1"]) = 1
  /\ Len(sent["t1"]) = 2
  /\ rx["t1"][1] # rx["t2"][1]

====
